---- MODULE Spec2Model ----
(***************************************************************************)
(* Model of diem/jsonrpc/client.py: the last-known-state tracker of        *)
(* Client, the request strategies (RequestStrategy, RequestWithBackups),   *)
(* Retry.execute and Client.execute / execute_without_retry / submit.      *)
(*                                                                         *)
(* The specifications share the tracker:                                   *)
(*   SpecTracker  threads calling update_last_known_state and              *)
(*                get_last_known_state directly, each call blocking on     *)
(*                Client._lock and then running its with-block atomically; *)
(*   Spec         one caller thread driving execute, execute_without_retry *)
(*                and submit through the configured request strategy,      *)
(*                while other users of the same client move the tracker;   *)
(*   SpecWait     one thread in wait_for_transaction2, whose lookups go    *)
(*                through execute, while time passes and other users move  *)
(*                the tracker; SpecWaitFair adds that the threads run on.  *)
(*   SpecAlone    Spec without the other users of the client.              *)
(***************************************************************************)
EXTENDS Integers, Sequences, FiniteSets, TLC

(* ---- bounds ---- *)
\* ledger versions a server reports are 0 .. MaxVersion
MaxVersion == 1
\* a server reports one of MaxTimestamp + 1 consecutive ledger timestamps (usecs), the
\* second of them a full second
MaxTimestamp == 1
\* Retry.max_retries of the client
MaxRetries == 4
\* Retry.delay_secs of the client, in units of sleep time
DelaySecs == 2
\* timeout_secs of wait_for_transaction2, in clock ticks
TimeoutSecs == 2
\* wait_duration_secs of wait_for_transaction2, in clock ticks
WaitDurationSecs == 1
\* expiration_time_secs of the awaited transaction is 0 .. MaxExpiration
MaxExpiration == 1
\* Retry.max_retries of the client that waits for a transaction
WaitMaxRetries == 2

(* ---- values ---- *)
\* json.get(key) of a key the response does not carry
None == -2
\* the value of every field of the state a fresh Client holds
Unset == -1

\* line 522: seconds to the microseconds of State.timestamp_usecs
UsecsPerSec == 1000000

ChainIds == {1, 2}
Versions == 0 .. MaxVersion
Timestamps == (UsecsPerSec - 1) .. (UsecsPerSec - 1 + MaxTimestamp)
Threads == {"t1", "t2"}

\* diem.jsonrpc.state.State
State(chain_id, version, timestamp_usecs) ==
    [chain_id |-> chain_id, version |-> version, timestamp_usecs |-> timestamp_usecs]

VARIABLES
    last_known_server_state,   \* Client._last_known_server_state
    threads,                   \* SpecTracker: each thread's call in progress and its outcome
    rs,                        \* Client._rs: "direct", "first_success" or "fallback"
    retry,                     \* Client._retry: [max_retries, delay_secs]
    caller,                    \* Spec: the caller thread's frame (operation, position, locals)
    http,                      \* the _send_http_request runs of the current send_request:
                               \* http.primary against Client._url, http.backup against a backup url
    log,                       \* what the current operation has invoked so far, in order
    waiter                     \* SpecWait: the frame of wait_for_transaction2 and the clock

vars == <<last_known_server_state, threads, rs, retry, caller, http, log, waiter>>

(* ---- Client.update_last_known_state, lines 262-275: the with-block ---- *)

\* the freshness test without the version comparison
update_no_version_check(curr, chain_id, version, timestamp_usecs) ==
    IF curr.chain_id # Unset /\ curr.chain_id # chain_id
    THEN [raised |-> "InvalidServerResponse", state |-> curr]
    ELSE IF version = None \/ timestamp_usecs = None
    THEN [raised |-> "TypeError", state |-> curr]
    ELSE IF curr.timestamp_usecs > timestamp_usecs
    THEN [raised |-> "StaleResponseError", state |-> curr]
    ELSE [raised |-> "none", state |-> State(chain_id, version, timestamp_usecs)]

\* the freshness test run before the chain id test
update_stale_check_first(curr, chain_id, version, timestamp_usecs) ==
    IF version = None \/ timestamp_usecs = None
    THEN [raised |-> "TypeError", state |-> curr]
    ELSE IF curr.version > version \/ curr.timestamp_usecs > timestamp_usecs
    THEN [raised |-> "StaleResponseError", state |-> curr]
    ELSE IF curr.chain_id # Unset /\ curr.chain_id # chain_id
    THEN [raised |-> "InvalidServerResponse", state |-> curr]
    ELSE [raised |-> "none", state |-> State(chain_id, version, timestamp_usecs)]

\* What the with-block does to the stored state curr, and what it raises.
\* Comparing an int with None raises TypeError in Python 3.
update_last_known_state(curr, chain_id, version, timestamp_usecs) ==
    IF curr.chain_id # Unset /\ curr.chain_id # chain_id
    THEN [raised |-> "InvalidServerResponse", state |-> curr]
    ELSE IF version = None
    THEN [raised |-> "TypeError", state |-> curr]
    ELSE IF curr.version > version
    THEN [raised |-> "StaleResponseError", state |-> curr]
    ELSE IF timestamp_usecs = None
    THEN [raised |-> "TypeError", state |-> curr]
    ELSE IF curr.timestamp_usecs > timestamp_usecs
    THEN [raised |-> "StaleResponseError", state |-> curr]
    ELSE [raised |-> "none", state |-> State(chain_id, version, timestamp_usecs)]

\* a copy that misses the timestamp
get_last_known_state_partial(curr) ==
    State(curr.chain_id, curr.version, Unset)

\* Client.get_last_known_state, line 252: copy.copy of the stored state
get_last_known_state(curr) ==
    State(curr.chain_id, curr.version, curr.timestamp_usecs)

(* ---- SpecTracker: direct calls of the two tracker methods ---- *)

NoArgs == State(Unset, Unset, Unset)

ThreadIdle ==
    [pc |-> "idle", args |-> NoArgs, raised |-> "none", returned |-> NoArgs]

\* thread t calls update_last_known_state(chain_id, version, timestamp_usecs)
\* and blocks on self._lock
UpdateCall(t, chain_id, version, timestamp_usecs) ==
    /\ threads[t].pc = "idle"
    /\ threads' = [threads EXCEPT ![t] =
            [pc |-> "update", args |-> State(chain_id, version, timestamp_usecs),
             raised |-> "none", returned |-> NoArgs]]
    /\ UNCHANGED <<waiter, last_known_server_state, rs, retry, caller, http, log>>

\* thread t holds the lock and runs the with-block of update_last_known_state
UpdateLocked(t) ==
    /\ threads[t].pc = "update"
    /\ LET a == threads[t].args
           r == update_last_known_state(last_known_server_state,
                                        a.chain_id, a.version, a.timestamp_usecs)
       IN /\ last_known_server_state' = r.state
          /\ threads' = [threads EXCEPT ![t] =
                [pc |-> "idle", args |-> a, raised |-> r.raised, returned |-> NoArgs]]
    /\ UNCHANGED <<waiter, rs, retry, caller, http, log>>

\* thread t calls get_last_known_state and blocks on self._lock
GetCall(t) ==
    /\ threads[t].pc = "idle"
    /\ threads' = [threads EXCEPT ![t] =
            [pc |-> "get", args |-> NoArgs, raised |-> "none", returned |-> NoArgs]]
    /\ UNCHANGED <<waiter, last_known_server_state, rs, retry, caller, http, log>>

\* thread t holds the lock and returns the copy
GetLocked(t) ==
    /\ threads[t].pc = "get"
    /\ threads' = [threads EXCEPT ![t] =
            [pc |-> "got", args |-> NoArgs, raised |-> "none",
             returned |-> get_last_known_state(last_known_server_state)]]
    /\ UNCHANGED <<waiter, last_known_server_state, rs, retry, caller, http, log>>

\* thread t drops the copy it held
GetDone(t) ==
    /\ threads[t].pc = "got"
    /\ threads' = [threads EXCEPT ![t] = ThreadIdle]
    /\ UNCHANGED <<waiter, last_known_server_state, rs, retry, caller, http, log>>

(* ---- Spec: one caller thread and the request pipeline ---- *)

Urls == {"primary", "backup"}

Other(u) == IF u = "primary" THEN "backup" ELSE "primary"

\* What session.post / raise_for_status / response.json produce (lines 597-603):
\* a transport failure, a body that is not JSON, or a JSON object.  A server reports
\* its ledger state with all three fields or with none of them (json.get gives None
\* for a field the object does not carry).
NoFields == [chain_id |-> None, version |-> None, timestamp_usecs |-> None]

JsonResponses ==
    { [kind |-> "json", chain_id |-> c, version |-> v, timestamp_usecs |-> ts] :
        c \in ChainIds, v \in Versions, ts \in Timestamps }
    \cup { [kind |-> "json"] @@ NoFields }

Responses ==
    JsonResponses \cup
    { [kind |-> k] @@ NoFields : k \in {"RequestException", "not_json"} }

\* which of "error" and "result" the JSON object of a response carries;
\* execute_without_retry reads them when send_request has returned the object
Envelopes == [error : BOOLEAN, result : BOOLEAN]

\* what result_parser makes of json["result"]: an object, None for an empty result
\* (_parse_obj, line 620), or a ParseError
Decoded == {"object", "None", "ParseError"}

\* a _send_http_request run that has not been started
NoCall ==
    [st |-> "none", rank |-> 0, raised |-> "none", why |-> "none",
     stale |-> FALSE, fresh |-> FALSE]

Running == [NoCall EXCEPT !.st = "running"]

NoStart == [version |-> Unset, timestamp_usecs |-> Unset]

NoReturn ==
    [raised |-> "none", why |-> "none", value |-> "none", from |-> "none",
     error |-> FALSE, result |-> FALSE]

CallerIdle ==
    [op |-> "idle", pc |-> "idle", ignore_stale_response |-> FALSE, result_parser |-> FALSE,
     tries |-> 0, first |-> "none", start |-> NoStart, ret |-> NoReturn]

Event(ev, arg) == [ev |-> ev, arg |-> arg]

Count(ev) == Cardinality({i \in DOMAIN log : log[i].ev = ev})

\* the caller is between operations
Idle == caller.pc \in {"idle", "done"}

\* the frame of an operation that starts now; start remembers the tracker position
\* the operation starts from, for as long as the operation runs
Frame(op, pc, parser, ignore) ==
    [CallerIdle EXCEPT !.op = op, !.pc = pc, !.result_parser = parser,
        !.ignore_stale_response = ignore,
        !.start = [version |-> last_known_server_state.version,
                   timestamp_usecs |-> last_known_server_state.timestamp_usecs]]

NoHttp == [u \in Urls |-> NoCall]

\* a StaleResponseError raised whatever ignore_stale_response is
send_http_request_never_ignoring(curr, start, ignore, resp) ==
    LET run == [Running EXCEPT !.st = "done"]
        upd == update_last_known_state(curr, resp.chain_id, resp.version, resp.timestamp_usecs)
        got == [run EXCEPT !.fresh = /\ resp.version # None
                                     /\ resp.timestamp_usecs # None
                                     /\ resp.version >= start.version
                                     /\ resp.timestamp_usecs >= start.timestamp_usecs]
    IN  IF resp.kind = "RequestException"
        THEN [call |-> [run EXCEPT !.raised = "RequestException"], state |-> curr]
        ELSE IF resp.kind = "not_json"
        THEN [call |-> [run EXCEPT !.raised = "InvalidServerResponse", !.why = "not_json"],
              state |-> curr]
        ELSE IF upd.raised = "StaleResponseError"
        THEN [call |-> [run EXCEPT !.raised = "StaleResponseError", !.stale = TRUE],
              state |-> upd.state]
        ELSE IF upd.raised = "InvalidServerResponse"
        THEN [call |-> [run EXCEPT !.raised = "InvalidServerResponse", !.why = "chain_id"],
              state |-> upd.state]
        ELSE IF upd.raised # "none"
        THEN [call |-> [run EXCEPT !.raised = upd.raised], state |-> upd.state]
        ELSE [call |-> got, state |-> upd.state]

\* a StaleResponseError swallowed whatever ignore_stale_response is
send_http_request_always_ignoring(curr, start, ignore, resp) ==
    LET run == [Running EXCEPT !.st = "done"]
        upd == update_last_known_state(curr, resp.chain_id, resp.version, resp.timestamp_usecs)
        got == [run EXCEPT !.fresh = /\ resp.version # None
                                     /\ resp.timestamp_usecs # None
                                     /\ resp.version >= start.version
                                     /\ resp.timestamp_usecs >= start.timestamp_usecs]
    IN  IF resp.kind = "RequestException"
        THEN [call |-> [run EXCEPT !.raised = "RequestException"], state |-> curr]
        ELSE IF resp.kind = "not_json"
        THEN [call |-> [run EXCEPT !.raised = "InvalidServerResponse", !.why = "not_json"],
              state |-> curr]
        ELSE IF upd.raised = "StaleResponseError"
        THEN [call |-> [got EXCEPT !.stale = TRUE], state |-> upd.state]
        ELSE IF upd.raised = "InvalidServerResponse"
        THEN [call |-> [run EXCEPT !.raised = "InvalidServerResponse", !.why = "chain_id"],
              state |-> upd.state]
        ELSE IF upd.raised # "none"
        THEN [call |-> [run EXCEPT !.raised = upd.raised], state |-> upd.state]
        ELSE [call |-> got, state |-> upd.state]

\* Client._send_http_request, lines 597-616, run on the response resp with the stored
\* state curr: the finished run and the stored state it leaves.  stale records that
\* update_last_known_state raised StaleResponseError for the response; fresh, for a
\* run whose response update_last_known_state accepted or rejected as stale, that the
\* response is at or past the position start the operation began from.
send_http_request(curr, start, ignore, resp) ==
    LET run == [Running EXCEPT !.st = "done"]
        upd == update_last_known_state(curr, resp.chain_id, resp.version, resp.timestamp_usecs)
        got == [run EXCEPT !.stale = (upd.raised = "StaleResponseError"),
                   !.fresh = /\ resp.version # None
                             /\ resp.timestamp_usecs # None
                             /\ resp.version >= start.version
                             /\ resp.timestamp_usecs >= start.timestamp_usecs]
    IN  IF resp.kind = "RequestException"
        THEN [call |-> [run EXCEPT !.raised = "RequestException"], state |-> curr]
        ELSE IF resp.kind = "not_json"
        THEN [call |-> [run EXCEPT !.raised = "InvalidServerResponse", !.why = "not_json"],
              state |-> curr]
        ELSE IF upd.raised = "StaleResponseError"
        THEN [call |-> IF ignore
                       THEN got
                       ELSE [got EXCEPT !.raised = "StaleResponseError"],
              state |-> upd.state]
        ELSE IF upd.raised = "InvalidServerResponse"
        THEN [call |-> [run EXCEPT !.raised = "InvalidServerResponse", !.why = "chain_id"],
              state |-> upd.state]
        ELSE IF upd.raised # "none"
        THEN [call |-> [run EXCEPT !.raised = upd.raised], state |-> upd.state]
        ELSE [call |-> got, state |-> upd.state]

\* the envelope inspected before what send_request raised
execute_without_retry_envelope_first(call, u, parser, env, decoded) ==
    LET r == [NoReturn EXCEPT !.from = u]
        j == [r EXCEPT !.error = env.error, !.result = env.result]
    IN  IF call.raised = "RequestException"
        THEN [r EXCEPT !.raised = "NetworkError"]
        ELSE IF call.why = "not_json"
        THEN [r EXCEPT !.raised = call.raised, !.why = call.why]
        ELSE IF env.error
        THEN [j EXCEPT !.raised = "JsonRpcError"]
        ELSE IF call.raised # "none"
        THEN [j EXCEPT !.raised = call.raised, !.why = call.why]
        ELSE IF env.result
        THEN [j EXCEPT !.value = IF parser THEN "object" ELSE "None"]
        ELSE [j EXCEPT !.raised = "InvalidServerResponse", !.why = "no_error_or_result"]

\* "result" looked at before "error"
execute_without_retry_result_first(call, u, parser, env, decoded) ==
    LET r == [NoReturn EXCEPT !.from = u]
        j == [r EXCEPT !.error = env.error, !.result = env.result]
    IN  IF call.raised = "RequestException"
        THEN [r EXCEPT !.raised = "NetworkError"]
        ELSE IF call.why = "not_json"
        THEN [r EXCEPT !.raised = call.raised, !.why = call.why]
        ELSE IF call.raised # "none"
        THEN [j EXCEPT !.raised = call.raised, !.why = call.why]
        ELSE IF env.result
        THEN IF ~parser
             THEN [j EXCEPT !.value = "None"]
             ELSE IF decoded = "ParseError"
             THEN [j EXCEPT !.raised = "InvalidServerResponse", !.why = "parse"]
             ELSE [j EXCEPT !.value = decoded]
        ELSE IF env.error
        THEN [j EXCEPT !.raised = "JsonRpcError"]
        ELSE [j EXCEPT !.raised = "InvalidServerResponse", !.why = "no_error_or_result"]

\* a RequestException handed to the caller as it is
execute_without_retry_unwrapped(call, u, parser, env, decoded) ==
    LET r == [NoReturn EXCEPT !.from = u]
        j == [r EXCEPT !.error = env.error, !.result = env.result]
    IN  IF call.raised = "RequestException"
        THEN [r EXCEPT !.raised = "RequestException"]
        ELSE IF call.why = "not_json"
        THEN [r EXCEPT !.raised = call.raised, !.why = call.why]
        ELSE IF call.raised # "none"
        THEN [j EXCEPT !.raised = call.raised, !.why = call.why]
        ELSE IF env.error
        THEN [j EXCEPT !.raised = "JsonRpcError"]
        ELSE IF env.result
        THEN IF ~parser
             THEN [j EXCEPT !.value = "None"]
             ELSE IF decoded = "ParseError"
             THEN [j EXCEPT !.raised = "InvalidServerResponse", !.why = "parse"]
             ELSE [j EXCEPT !.value = decoded]
        ELSE [j EXCEPT !.raised = "InvalidServerResponse", !.why = "no_error_or_result"]

\* Client.execute_without_retry, lines 573-588, on what send_request returned or raised:
\* call is the finished run of url u, env what the JSON object of its response
\* carries.  The outcome records env whenever the response was a JSON object, also
\* when the run raised and the object never reached execute_without_retry.
execute_without_retry(call, u, parser, env, decoded) ==
    LET r == [NoReturn EXCEPT !.from = u]
        j == [r EXCEPT !.error = env.error, !.result = env.result]
    IN  IF call.raised = "RequestException"
        THEN [r EXCEPT !.raised = "NetworkError"]
        ELSE IF call.why = "not_json"
        THEN [r EXCEPT !.raised = call.raised, !.why = call.why]
        ELSE IF call.raised # "none"
        THEN [j EXCEPT !.raised = call.raised, !.why = call.why]
        ELSE IF env.error
        THEN [j EXCEPT !.raised = "JsonRpcError"]
        ELSE IF env.result
        THEN IF ~parser
             THEN [j EXCEPT !.value = "None"]
             ELSE IF decoded = "ParseError"
             THEN [j EXCEPT !.raised = "InvalidServerResponse", !.why = "parse"]
             ELSE [j EXCEPT !.value = decoded]
        ELSE [j EXCEPT !.raised = "InvalidServerResponse", !.why = "no_error_or_result"]

\* a backoff that doubles
backoff_exponential(delay_secs, tries) == delay_secs * (2 ^ (tries - 1))

\* Retry.execute, line 61: the backoff after the failed attempt number tries
backoff(delay_secs, tries) == delay_secs * tries

\* what log holds once execute_without_retry has ended with outcome r
Raised(r) ==
    IF r.raised = "none" THEN log ELSE Append(log, Event(r.raised, caller.tries))

\* the operation ends with outcome r
Done(r) ==
    /\ caller' = [caller EXCEPT !.pc = "done", !.first = "none", !.start = NoStart, !.ret = r]
    /\ log' = Raised(r)

\* every failure of fn is retried
ReturnsRetryingAnyError(r) ==
    IF caller.tries > 0 /\ r.raised # "none" /\ caller.tries < retry.max_retries
    THEN /\ caller' = [caller EXCEPT !.pc = "retry", !.first = "none"]
         /\ log' = Append(Raised(r), Event("sleep", backoff(retry.delay_secs, caller.tries)))
    ELSE Done(r)

\* the last attempt's failure is slept on and the loop left
ReturnsSleepingOnLastAttempt(r) ==
    IF caller.tries > 0 /\ r.raised = "StaleResponseError"
    THEN /\ caller' = [caller EXCEPT !.pc = "retry", !.first = "none"]
         /\ log' = Append(Raised(r), Event("sleep", backoff(retry.delay_secs, caller.tries)))
    ELSE Done(r)

\* execute_without_retry ends with outcome r.  Called as fn by Retry.execute (tries > 0),
\* lines 58-63 retry a StaleResponseError after a sleep while attempts are left; any
\* other outcome, and every outcome of a call made without Retry, goes to the caller.
Returns(r) ==
    IF /\ caller.tries > 0
       /\ r.raised = "StaleResponseError"
       /\ caller.tries < retry.max_retries
    THEN /\ caller' = [caller EXCEPT !.pc = "retry", !.first = "none"]
         /\ log' = Append(Raised(r), Event("sleep", backoff(retry.delay_secs, caller.tries)))
    ELSE Done(r)

\* Client.execute, lines 542-544, as the get methods call it (lines 287-383: a
\* result_parser, ignore_stale_response left unset): enter Retry.execute
Execute ==
    /\ Idle
    /\ caller' = Frame("execute", "retry", TRUE, FALSE)
    /\ http' = NoHttp
    /\ log' = <<Event("Retry.execute", 0)>>
    /\ UNCHANGED <<waiter, last_known_server_state, threads, rs, retry>>

\* Retry.execute, lines 53-57: the loop test and the call of fn
RetryLoop ==
    /\ caller.pc = "retry"
    /\ IF caller.tries < retry.max_retries
       THEN /\ caller' = [caller EXCEPT !.pc = "send", !.tries = caller.tries + 1]
            /\ log' = Append(log, Event("execute_without_retry", caller.tries + 1))
       ELSE /\ caller' = [caller EXCEPT !.pc = "done", !.start = NoStart,
                                  !.ret = [NoReturn EXCEPT !.value = "None"]]
            /\ log' = log
    /\ UNCHANGED <<waiter, last_known_server_state, threads, rs, retry, http>>

\* a direct call of Client.execute_without_retry
ExecuteWithoutRetry(parser, ignore) ==
    /\ Idle
    /\ caller' = Frame("execute_without_retry", "send", parser, ignore)
    /\ http' = NoHttp
    /\ log' = <<Event("execute_without_retry", 0)>>
    /\ UNCHANGED <<waiter, last_known_server_state, threads, rs, retry>>

\* submit sent through the retrying executor
SubmitThroughExecute ==
    /\ Idle
    /\ caller' = Frame("submit", "retry", FALSE, FALSE)
    /\ http' = NoHttp
    /\ log' = <<Event("Retry.execute", 0)>>
    /\ UNCHANGED <<waiter, last_known_server_state, threads, rs, retry>>

\* Client.submit, line 442
Submit ==
    /\ Idle
    /\ caller' = Frame("submit", "send", FALSE, TRUE)
    /\ http' = NoHttp
    /\ log' = <<Event("execute_without_retry", 0)>>
    /\ UNCHANGED <<waiter, last_known_server_state, threads, rs, retry>>

\* execute_without_retry line 574 into RequestStrategy.send_request (line 75) or
\* RequestWithBackups.send_request (lines 124-127): the runs are started
SendRequest ==
    /\ caller.pc = "send"
    /\ caller' = [caller EXCEPT !.pc = "wait"]
    /\ http' = [u \in Urls |->
                  IF u = "primary" \/ rs # "direct"
                  THEN Running
                  ELSE NoCall]
    /\ log' = Append(log, Event("send_request", 0))
    /\ UNCHANGED <<waiter, last_known_server_state, threads, rs, retry>>

\* one run of _send_http_request receives resp and finishes; rank is its place in
\* the order in which the runs of this send_request finish
SendHttpRequest(u, resp) ==
    /\ http[u].st = "running"
    /\ LET r == send_http_request(last_known_server_state, caller.start,
                                  caller.ignore_stale_response, resp)
       IN /\ http' = [http EXCEPT ![u] =
                       [r.call EXCEPT !.rank = IF http[Other(u)].st = "done" THEN 2 ELSE 1]]
          /\ last_known_server_state' = r.state
    /\ UNCHANGED <<waiter, threads, rs, retry, caller, log>>

\* RequestStrategy.send_request, line 75, returns to execute_without_retry
DirectReturn(env, decoded) ==
    /\ caller.pc = "wait"
    /\ rs = "direct"
    /\ http["primary"].st = "done"
    /\ Returns(execute_without_retry(http["primary"], "primary", caller.result_parser, env, decoded))
    /\ UNCHANGED <<waiter, last_known_server_state, threads, rs, retry, http>>

\* the first finished run is consulted, the primary's or the backup's
FallbackFirstCompleted(env, decoded) ==
    /\ caller.pc = "wait"
    /\ rs = "fallback"
    /\ \E u \in Urls :
          /\ http[u].st = "done"
          /\ IF http[u].raised = "none"
             THEN Returns(execute_without_retry(http[u], u, caller.result_parser, env, decoded))
             ELSE /\ caller' = [caller EXCEPT !.pc = "second", !.first = "primary"]
                  /\ log' = log
    /\ UNCHANGED <<waiter, last_known_server_state, threads, rs, retry, http>>

\* a StaleResponseError of the primary surfaced without consulting the backup
FallbackPrimarySurfacingStale(env, decoded) ==
    /\ caller.pc = "wait"
    /\ rs = "fallback"
    /\ http["primary"].st = "done"
    /\ IF http["primary"].raised \in {"none", "StaleResponseError"}
       THEN Returns(execute_without_retry(http["primary"], "primary",
                                          caller.result_parser, env, decoded))
       ELSE /\ caller' = [caller EXCEPT !.pc = "second", !.first = "primary"]
            /\ log' = log
    /\ UNCHANGED <<waiter, last_known_server_state, threads, rs, retry, http>>

\* RequestWithBackups._fallback_to_backup, lines 134-136: primary.result()
FallbackPrimary(env, decoded) ==
    /\ caller.pc = "wait"
    /\ rs = "fallback"
    /\ http["primary"].st = "done"
    /\ IF http["primary"].raised = "none"
       THEN Returns(execute_without_retry(http["primary"], "primary",
                                          caller.result_parser, env, decoded))
       ELSE /\ caller' = [caller EXCEPT !.pc = "second", !.first = "primary"]
            /\ log' = log
    /\ UNCHANGED <<waiter, last_known_server_state, threads, rs, retry, http>>

\* the primary's failure surfaced when the backup has failed too
FallbackBackupSurfacingPrimary(env, decoded) ==
    /\ caller.pc = "second"
    /\ rs = "fallback"
    /\ http["backup"].st = "done"
    /\ LET u == IF http["backup"].raised = "none" THEN "backup" ELSE "primary"
       IN Returns(execute_without_retry(http[u], u, caller.result_parser, env, decoded))
    /\ UNCHANGED <<waiter, last_known_server_state, threads, rs, retry, http>>

\* RequestWithBackups._fallback_to_backup, line 137: backup.result()
FallbackBackup(env, decoded) ==
    /\ caller.pc = "second"
    /\ rs = "fallback"
    /\ http["backup"].st = "done"
    /\ Returns(execute_without_retry(http["backup"], "backup", caller.result_parser, env, decoded))
    /\ UNCHANGED <<waiter, last_known_server_state, threads, rs, retry, http>>

\* a StaleResponseError of the first future surfaced without consulting the other
FirstSuccessSurfacingStale(u, env, decoded) ==
    /\ caller.pc = "wait"
    /\ rs = "first_success"
    /\ http[u].st = "done"
    /\ IF http[u].raised \in {"none", "StaleResponseError"}
       THEN Returns(execute_without_retry(http[u], u, caller.result_parser, env, decoded))
       ELSE /\ caller' = [caller EXCEPT !.pc = "second", !.first = u]
            /\ log' = log
    /\ UNCHANGED <<waiter, last_known_server_state, threads, rs, retry, http>>

\* RequestWithBackups._first_success, lines 140-144: the first future as_completed
\* yields is u (either one when both are finished), and first.result()
FirstSuccess(u, env, decoded) ==
    /\ caller.pc = "wait"
    /\ rs = "first_success"
    /\ http[u].st = "done"
    /\ IF http[u].raised = "none"
       THEN Returns(execute_without_retry(http[u], u, caller.result_parser, env, decoded))
       ELSE /\ caller' = [caller EXCEPT !.pc = "second", !.first = u]
            /\ log' = log
    /\ UNCHANGED <<waiter, last_known_server_state, threads, rs, retry, http>>

\* the first future's failure surfaced when the second has failed too
FirstSuccessNextSurfacingFirst(env, decoded) ==
    /\ caller.pc = "second"
    /\ rs = "first_success"
    /\ http[Other(caller.first)].st = "done"
    /\ LET u == IF http[Other(caller.first)].raised = "none"
                THEN Other(caller.first)
                ELSE caller.first
       IN Returns(execute_without_retry(http[u], u, caller.result_parser, env, decoded))
    /\ UNCHANGED <<waiter, last_known_server_state, threads, rs, retry, http>>

\* RequestWithBackups._first_success, line 145: next(futures).result()
FirstSuccessNext(env, decoded) ==
    /\ caller.pc = "second"
    /\ rs = "first_success"
    /\ http[Other(caller.first)].st = "done"
    /\ Returns(execute_without_retry(http[Other(caller.first)], Other(caller.first),
                                      caller.result_parser, env, decoded))
    /\ UNCHANGED <<waiter, last_known_server_state, threads, rs, retry, http>>

\* another user of the same client (another caller's _send_http_request, lines
\* 607-611) reaches update_last_known_state with its response's fields
ConcurrentUpdate(chain_id, version, timestamp_usecs) ==
    /\ last_known_server_state' =
            update_last_known_state(last_known_server_state,
                                    chain_id, version, timestamp_usecs).state
    /\ last_known_server_state' # last_known_server_state
    /\ UNCHANGED <<waiter, threads, rs, retry, caller, http, log>>

(* ---- SpecWait: Client.wait_for_transaction2, lines 499-526 ---- *)

ExpirationTimes == 0 .. MaxExpiration

\* The frame of wait_for_transaction2.  now is time.time() counted from start_time
\* in ticks and is not counted past max_wait, the only value it is compared with;
\* state is the copy get_last_known_state returned in this iteration and txn what the
\* lookup of this iteration returned; polls counts the lookups made; outcome is what
\* the method returned or raised.
NoTxn == [found |-> FALSE, hash_ok |-> FALSE, executed |-> FALSE]

WaiterIdle ==
    [pc |-> "idle", now |-> 0, max_wait |-> 0, expiration_time_secs |-> 0,
     state |-> NoArgs, txn |-> NoTxn, polls |-> 0, outcome |-> "none"]

\* lines 499-500: the call of wait_for_transaction2
WaitForTransaction2(expiration_time_secs) ==
    /\ waiter.pc = "idle"
    /\ waiter' = [waiter EXCEPT !.pc = "loop", !.max_wait = TimeoutSecs,
                                !.expiration_time_secs = expiration_time_secs]
    /\ UNCHANGED <<last_known_server_state, threads, rs, retry, caller, http, log>>

\* the deadline interrupts whatever the method is doing
TickInterrupting ==
    /\ waiter.pc \notin {"idle", "done"}
    /\ waiter.now < waiter.max_wait
    /\ waiter' = IF waiter.now + 1 < waiter.max_wait
                 THEN [waiter EXCEPT !.now = waiter.now + 1]
                 ELSE [waiter EXCEPT !.now = waiter.now + 1, !.pc = "done",
                                     !.outcome = "WaitForTransactionTimeout"]
    /\ UNCHANGED <<last_known_server_state, threads, rs, retry, caller, http, log>>

\* time passes while the method runs
Tick ==
    /\ waiter.pc \notin {"idle", "done"}
    /\ waiter.now < waiter.max_wait
    /\ waiter' = [waiter EXCEPT !.now = waiter.now + 1]
    /\ UNCHANGED <<last_known_server_state, threads, rs, retry, caller, http, log>>

\* lines 501 and 526: the loop test, and WaitForTransactionTimeout when it fails
WaitLoop ==
    /\ waiter.pc = "loop"
    /\ waiter' = IF waiter.now < waiter.max_wait
                 THEN [waiter EXCEPT !.pc = "state"]
                 ELSE [waiter EXCEPT !.pc = "done", !.outcome = "WaitForTransactionTimeout"]
    /\ UNCHANGED <<last_known_server_state, threads, rs, retry, caller, http, log>>

\* line 514: state = self.get_last_known_state()
WaitGetState ==
    /\ waiter.pc = "state"
    /\ waiter' = [waiter EXCEPT !.pc = "call",
                                !.state = get_last_known_state(last_known_server_state)]
    /\ UNCHANGED <<last_known_server_state, threads, rs, retry, caller, http, log>>

\* line 515: get_account_transaction (line 324) enters Client.execute
WaitLookup ==
    /\ waiter.pc = "call"
    /\ waiter' = [waiter EXCEPT !.pc = "lookup", !.txn = NoTxn, !.polls = waiter.polls + 1]
    /\ caller' = Frame("execute", "retry", TRUE, FALSE)
    /\ http' = NoHttp
    /\ log' = <<Event("Retry.execute", 0)>>
    /\ UNCHANGED <<last_known_server_state, threads, rs, retry>>

\* the expiry test made with the stored state read after the lookup
wait_outcome_late_state(ret, state, curr, expiration_time_secs, hash_ok, executed) ==
    IF ret.raised # "none" THEN ret.raised
    ELSE IF ret.value = "object"
    THEN IF ~hash_ok THEN "TransactionHashMismatchError"
         ELSE IF ~executed THEN "TransactionExecutionFailed"
         ELSE "txn"
    ELSE IF expiration_time_secs * UsecsPerSec <= curr.timestamp_usecs
    THEN "TransactionExpired"
    ELSE "sleep"

\* the execution status tested before the hash
wait_outcome_status_first(ret, state, curr, expiration_time_secs, hash_ok, executed) ==
    IF ret.raised # "none" THEN ret.raised
    ELSE IF ret.value = "object"
    THEN IF ~executed THEN "TransactionExecutionFailed"
         ELSE IF ~hash_ok THEN "TransactionHashMismatchError"
         ELSE "txn"
    ELSE IF expiration_time_secs * UsecsPerSec <= state.timestamp_usecs
    THEN "TransactionExpired"
    ELSE "sleep"

\* the expiry proven only by a timestamp past the expiration
wait_outcome_strict_expiry(ret, state, curr, expiration_time_secs, hash_ok, executed) ==
    IF ret.raised # "none" THEN ret.raised
    ELSE IF ret.value = "object"
    THEN IF ~hash_ok THEN "TransactionHashMismatchError"
         ELSE IF ~executed THEN "TransactionExecutionFailed"
         ELSE "txn"
    ELSE IF expiration_time_secs * UsecsPerSec < state.timestamp_usecs
    THEN "TransactionExpired"
    ELSE "sleep"

\* a failed lookup taken for a lookup that found nothing
wait_outcome_swallowing_failure(ret, state, curr, expiration_time_secs, hash_ok, executed) ==
    IF ret.raised = "none" /\ ret.value = "object"
    THEN IF ~hash_ok THEN "TransactionHashMismatchError"
         ELSE IF ~executed THEN "TransactionExecutionFailed"
         ELSE "txn"
    ELSE IF expiration_time_secs * UsecsPerSec <= state.timestamp_usecs
    THEN "TransactionExpired"
    ELSE "sleep"

\* lines 515-523 once the lookup has ended with ret: what the iteration does with the
\* copy state taken before the lookup (curr is the stored state by now).  An exception
\* of the lookup leaves the method; a transaction found has the expected hash or not
\* (hash_ok) and the status VM_STATUS_EXECUTED or not (executed).
wait_outcome(ret, state, curr, expiration_time_secs, hash_ok, executed) ==
    IF ret.raised # "none" THEN ret.raised
    ELSE IF ret.value = "object"
    THEN IF ~hash_ok THEN "TransactionHashMismatchError"
         ELSE IF ~executed THEN "TransactionExecutionFailed"
         ELSE "txn"
    ELSE IF expiration_time_secs * UsecsPerSec <= state.timestamp_usecs
    THEN "TransactionExpired"
    ELSE "sleep"

\* lines 515-524: the lookup has returned or raised, and the iteration acts on it.
\* The frame of the lookup is gone with it.
WaitLookupReturns(hash_ok, executed) ==
    /\ waiter.pc = "lookup"
    /\ caller.pc = "done"
    /\ LET o == wait_outcome(caller.ret, waiter.state, last_known_server_state,
                             waiter.expiration_time_secs, hash_ok, executed)
           txn == IF caller.ret.raised = "none" /\ caller.ret.value = "object"
                  THEN [found |-> TRUE, hash_ok |-> hash_ok, executed |-> executed]
                  ELSE NoTxn
       IN waiter' = IF o = "sleep"
                    THEN [waiter EXCEPT !.pc = "sleep", !.txn = txn]
                    ELSE [waiter EXCEPT !.pc = "done", !.txn = txn, !.outcome = o]
    /\ caller' = CallerIdle
    /\ http' = NoHttp
    /\ log' = <<>>
    /\ UNCHANGED <<last_known_server_state, threads, rs, retry>>

\* line 524: time.sleep(wait_duration_secs) has returned
WaitSleep ==
    /\ waiter.pc = "sleep"
    /\ waiter' = [waiter EXCEPT !.pc = "loop",
                                !.now = IF waiter.now + WaitDurationSecs < waiter.max_wait
                                        THEN waiter.now + WaitDurationSecs
                                        ELSE waiter.max_wait]
    /\ UNCHANGED <<last_known_server_state, threads, rs, retry, caller, http, log>>

(* ---- the specifications ---- *)

RequestStrategies == {"direct", "first_success", "fallback"}


\* Client.__init__, lines 163-171
Init ==
    /\ last_known_server_state = State(Unset, Unset, Unset)
    /\ threads = [t \in Threads |-> ThreadIdle]
    /\ rs \in RequestStrategies
    /\ retry = [max_retries |-> MaxRetries, delay_secs |-> DelaySecs]
    /\ caller = CallerIdle
    /\ http = NoHttp
    /\ log = <<>>
    /\ waiter = WaiterIdle

Next ==
    \/ Execute
    \/ RetryLoop
    \/ \E parser \in BOOLEAN, ignore \in BOOLEAN : ExecuteWithoutRetry(parser, ignore)
    \/ Submit
    \/ SendRequest
    \/ \E u \in Urls, resp \in Responses : SendHttpRequest(u, resp)
    \/ \E e \in Envelopes, d \in Decoded : DirectReturn(e, d)
    \/ \E e \in Envelopes, d \in Decoded : FallbackPrimary(e, d)
    \/ \E e \in Envelopes, d \in Decoded : FallbackBackup(e, d)
    \/ \E u \in Urls, e \in Envelopes, d \in Decoded : FirstSuccess(u, e, d)
    \/ \E e \in Envelopes, d \in Decoded : FirstSuccessNext(e, d)
    \/ \E c \in ChainIds, v \in Versions, ts \in Timestamps :
            ConcurrentUpdate(c, v, ts)

Spec == Init /\ [][Next]_vars

\* a client used by one caller only: no other thread reaches update_last_known_state
NextAlone ==
    \/ Execute
    \/ RetryLoop
    \/ \E parser \in BOOLEAN, ignore \in BOOLEAN : ExecuteWithoutRetry(parser, ignore)
    \/ Submit
    \/ SendRequest
    \/ \E u \in Urls, resp \in Responses : SendHttpRequest(u, resp)
    \/ \E e \in Envelopes, d \in Decoded : DirectReturn(e, d)
    \/ \E e \in Envelopes, d \in Decoded : FallbackPrimary(e, d)
    \/ \E e \in Envelopes, d \in Decoded : FallbackBackup(e, d)
    \/ \E u \in Urls, e \in Envelopes, d \in Decoded : FirstSuccess(u, e, d)
    \/ \E e \in Envelopes, d \in Decoded : FirstSuccessNext(e, d)

SpecAlone == Init /\ [][NextAlone]_vars

\* a client used only through its two tracker methods
InitTracker ==
    /\ Init
    /\ rs = "direct"

NextTracker ==
    \/ \E t \in Threads, c \in ChainIds, v \in Versions, ts \in Timestamps :
            UpdateCall(t, c, v, ts)
    \/ \E t \in Threads : UpdateLocked(t)
    \/ \E t \in Threads : GetCall(t)
    \/ \E t \in Threads : GetLocked(t)
    \/ \E t \in Threads : GetDone(t)

SpecTracker == InitTracker /\ [][NextTracker]_vars

\* a client built with Retry(WaitMaxRetries, DelaySecs, StaleResponseError) and the
\* default RequestStrategy, used by one thread that waits for a transaction and by
\* others that move the tracker
InitWait ==
    /\ last_known_server_state = State(Unset, Unset, Unset)
    /\ threads = [t \in Threads |-> ThreadIdle]
    /\ rs = "direct"
    /\ retry = [max_retries |-> WaitMaxRetries, delay_secs |-> DelaySecs]
    /\ caller = CallerIdle
    /\ http = NoHttp
    /\ log = <<>>
    /\ waiter = WaiterIdle

NextWait ==
    \/ \E e \in ExpirationTimes : WaitForTransaction2(e)
    \/ Tick
    \/ WaitLoop
    \/ WaitGetState
    \/ WaitLookup
    \/ \E hash_ok \in BOOLEAN, executed \in BOOLEAN : WaitLookupReturns(hash_ok, executed)
    \/ WaitSleep
    \/ RetryLoop
    \/ SendRequest
    \/ \E u \in Urls, resp \in Responses : SendHttpRequest(u, resp)
    \/ \E e \in Envelopes, d \in Decoded : DirectReturn(e, d)
    \/ \E c \in ChainIds, v \in Versions, ts \in Timestamps :
            ConcurrentUpdate(c, v, ts)

SpecWait == InitWait /\ [][NextWait]_vars

\* every thread that can take a step takes one in the end
SpecWaitFair == SpecWait /\ WF_vars(NextWait)

(* ---- the tracker's contract (SpecTracker) ---- *)

\* thread t's with-block of update_last_known_state runs in this step
UpdateStep(t) == threads[t].pc = "update" /\ threads'[t].pc = "idle"

\* the arguments of thread t's update are in conflict with the stored chain id
ChainConflict(t) ==
    /\ last_known_server_state.chain_id # Unset
    /\ threads[t].args.chain_id # last_known_server_state.chain_id

\* the arguments of thread t's update regress the stored version or timestamp
Regresses(t) ==
    \/ threads[t].args.version < last_known_server_state.version
    \/ threads[t].args.timestamp_usecs < last_known_server_state.timestamp_usecs

C1_Step ==
    /\ last_known_server_state'.version >= last_known_server_state.version
    /\ last_known_server_state'.timestamp_usecs >= last_known_server_state.timestamp_usecs
    /\ \A t \in Threads :
          UpdateStep(t) /\ ~ChainConflict(t) /\ Regresses(t)
          => /\ threads'[t].raised = "StaleResponseError"
             /\ last_known_server_state' = last_known_server_state

\* C1: over every interleaving of update_last_known_state calls the stored version and
\* the stored timestamp never decrease, and an update whose chain id is not in conflict
\* and whose version or timestamp is smaller than the stored one raises
\* StaleResponseError and leaves the stored triple as it was, also when only one of
\* the two fields regresses.
C1_MonotoneTracker == [][C1_Step]_vars

\* C1 witness: an update that advanced the version and regressed the timestamp has
\* been rejected as stale.
C1_Witness ==
    \E t \in Threads :
        /\ threads[t].pc = "idle"
        /\ threads[t].raised = "StaleResponseError"
        /\ threads[t].args.chain_id = last_known_server_state.chain_id
        /\ threads[t].args.version > last_known_server_state.version
        /\ threads[t].args.timestamp_usecs < last_known_server_state.timestamp_usecs

C2_Step ==
    /\ last_known_server_state.chain_id # Unset
       => last_known_server_state'.chain_id = last_known_server_state.chain_id
    /\ \A t \in Threads :
          UpdateStep(t) /\ ChainConflict(t)
          => /\ threads'[t].raised = "InvalidServerResponse"
             /\ last_known_server_state' = last_known_server_state

\* C2: once the stored chain id is set, every update with another chain id raises the
\* chain error (InvalidServerResponse) and leaves the stored state as it was, whatever
\* its version and timestamp are (a smaller version does not turn it into
\* StaleResponseError), and the stored chain id never changes again.
C2_ChainIdentityFirst == [][C2_Step]_vars

\* C2 witness: an update with another chain id and a smaller version has been rejected
\* with the chain error.
C2_Witness ==
    \E t \in Threads :
        /\ threads[t].pc = "idle"
        /\ threads[t].raised = "InvalidServerResponse"
        /\ threads[t].args.chain_id # last_known_server_state.chain_id
        /\ threads[t].args.version < last_known_server_state.version

(* ---- the executor's contract (Spec) ---- *)

\* the operation has returned or raised
Ended == caller.pc = "done"

\* the outcome comes from a run of _send_http_request
FromRun == caller.ret.from \in Urls

\* the run whose object or exception send_request handed to execute_without_retry
Surfaced == http[caller.ret.from]

\* a run of _send_http_request finishes in this step
RunStep(u) == http[u].st = "running" /\ http'[u].st = "done"

C3_Inv ==
    ~caller.ignore_stale_response
    => /\ \A u \in Urls : http[u].stale => http[u].raised = "StaleResponseError"
       /\ Ended /\ caller.op = "execute_without_retry" /\ FromRun /\ Surfaced.stale
          => /\ caller.ret.raised = "StaleResponseError"
             /\ caller.ret.value = "none"

C3_Step ==
    \A u \in Urls :
        RunStep(u) /\ http'[u].raised = "StaleResponseError"
        => last_known_server_state' = last_known_server_state

C4_ReadsNeverGoBack ==
    /\ Ended
    /\ caller.op \in {"execute", "execute_without_retry"}
    /\ ~caller.ignore_stale_response
    /\ caller.ret.raised = "none"
    => FromRun /\ Surfaced.fresh

\* C4 witness: a racing read returned an object on its second attempt.
C4_Witness ==
    /\ Ended
    /\ caller.op = "execute"
    /\ rs = "first_success"
    /\ caller.tries = 2
    /\ caller.ret.value = "object"
    /\ last_known_server_state.version = MaxVersion

\* the outcome execute_without_retry gives a returned object with the envelope the
\* outcome records
Classified ==
    IF caller.ret.error
    THEN caller.ret.raised = "JsonRpcError"
    ELSE IF caller.ret.result
    THEN \/ caller.ret.raised = "none" /\ caller.ret.value \in {"None", "object"}
         \/ caller.ret.raised = "InvalidServerResponse" /\ caller.ret.why = "parse"
    ELSE caller.ret.raised = "InvalidServerResponse" /\ caller.ret.why = "no_error_or_result"

C5_Inv ==
    Ended /\ caller.op \in {"execute_without_retry", "submit"} /\ caller.ignore_stale_response
    => /\ caller.ret.raised # "StaleResponseError"
       /\ FromRun /\ Surfaced.stale => Surfaced.raised = "none" /\ Classified

C5_Step ==
    \A u \in Urls :
        RunStep(u) /\ http'[u].stale /\ http'[u].raised = "none"
        => last_known_server_state' = last_known_server_state

C6_SubmitSendsOnce ==
    caller.op = "submit"
    => /\ caller.ignore_stale_response
       /\ Count("Retry.execute") = 0
       /\ Count("sleep") = 0
       /\ Count("execute_without_retry") = 1
       /\ Count("send_request") = IF caller.pc = "send" THEN 0 ELSE 1

\* C6 witness: a submit whose response was stale has returned.
C6_Witness ==
    /\ Ended
    /\ caller.op = "submit"
    /\ FromRun
    /\ Surfaced.stale
    /\ caller.ret.raised = "none"

\* what Retry.execute has invoked when k attempts have failed with StaleResponseError
RECURSIVE StaleAttempts(_)
StaleAttempts(k) ==
    IF k = 0
    THEN <<Event("Retry.execute", 0)>>
    ELSE StaleAttempts(k - 1) \o
         <<Event("execute_without_retry", k), Event("send_request", 0),
           Event("StaleResponseError", k), Event("sleep", retry.delay_secs * k)>>

\* the call of fn number n
Attempt(n) == <<Event("execute_without_retry", n), Event("send_request", 0)>>

\* C7: when fn fails k < max_retries times with StaleResponseError and then succeeds,
\* Retry.execute returns fn's value having called fn k+1 times and slept k times, the
\* sleep after failed attempt n being delay_secs * n and lying between attempt n and
\* attempt n+1.
C7_RetryThenSucceed ==
    Ended /\ caller.op = "execute" /\ caller.ret.raised = "none"
    => /\ caller.tries \in 1 .. retry.max_retries
       /\ caller.ret.value \in {"None", "object"}
       /\ log = StaleAttempts(caller.tries - 1) \o Attempt(caller.tries)

\* C7 witness: the last attempt allowed succeeded after max_retries - 1 stale ones.
C7_Witness ==
    /\ Ended
    /\ caller.op = "execute"
    /\ caller.ret.value = "object"
    /\ caller.tries = MaxRetries
    /\ Count("sleep") = MaxRetries - 1

\* C8: when fn always fails with StaleResponseError, Retry.execute calls it exactly
\* max_retries times, does not sleep after the last attempt and raises that attempt's
\* StaleResponseError.
C8_RetriesExhausted ==
    caller.op = "execute"
    => /\ Count("execute_without_retry") <= retry.max_retries
       /\ Ended /\ caller.ret.raised = "StaleResponseError"
          => caller.tries = retry.max_retries /\ FromRun /\ Surfaced.stale
       /\ \A i \in DOMAIN log :
             log[i] = Event("StaleResponseError", retry.max_retries)
             => /\ Ended
                /\ caller.ret.raised = "StaleResponseError"
                /\ log = StaleAttempts(retry.max_retries - 1) \o Attempt(retry.max_retries)
                             \o <<Event("StaleResponseError", retry.max_retries)>>

\* C8 witness: max_retries stale attempts ended execute with StaleResponseError.
C8_Witness ==
    /\ Ended
    /\ caller.op = "execute"
    /\ caller.ret.raised = "StaleResponseError"
    /\ Count("execute_without_retry") = MaxRetries

NonRetryable == {"NetworkError", "JsonRpcError", "InvalidServerResponse", "TypeError"}

\* C9: a failure of fn that is not StaleResponseError ends Retry.execute at once:
\* nothing is invoked after it (no sleep, no further attempt), it is the failure
\* execute raises, and fn and send_request have been called once per attempt made, so
\* once when the first attempt fails and k+1 times after k stale attempts.
C9_NoRetryOfOtherFailures ==
    caller.op = "execute"
    => \A i \in DOMAIN log :
          log[i].ev \in NonRetryable
          => /\ i = Len(log)
             /\ Ended
             /\ caller.ret.raised = log[i].ev
             /\ log = StaleAttempts(log[i].arg - 1) \o Attempt(log[i].arg) \o <<log[i]>>

\* C9 witness: after one stale attempt the second attempt met another chain id and
\* execute raised the chain error.
C9_Witness ==
    /\ Ended
    /\ caller.op = "execute"
    /\ caller.ret.raised = "InvalidServerResponse"
    /\ caller.ret.why = "chain_id"
    /\ caller.tries = 2

\* C10: in first-success mode, when the backup's run finishes before the primary's and
\* returns its object, send_request returns the backup's object.
C10_BackupFirstWins ==
    /\ Ended
    /\ rs = "first_success"
    /\ http["backup"].rank = 1
    /\ http["backup"].raised = "none"
    => caller.ret.from = "backup"

\* In first-success mode the backup's object is what send_request returns when the
\* backup's run has returned it and the primary's run is still going on as the caller
\* takes the first completed future, and what the primary does afterwards leaves the
\* outcome as it is.
C10_BackupWinsWhilePrimaryRuns ==
    [][/\ (/\ rs = "first_success"
            /\ caller.pc = "wait"
            /\ http["backup"].st = "done"
            /\ http["backup"].raised = "none"
            /\ http["primary"].st = "running"
            /\ caller' # caller)
           => /\ caller'.pc = "done"
              /\ caller'.ret.from = "backup"
              /\ http'["primary"].st = "running"
       /\ (Ended /\ RunStep("primary")) => caller' = caller]_vars

(* ---- RequestWithBackups: which run send_request surfaces (Spec) ---- *)

\* what execute_without_retry raises for the exception a run raised
SurfacedAs(raised) == IF raised = "RequestException" THEN "NetworkError" ELSE raised

\* the caller thread leaves send_request in this step with the outcome of run u:
\* the operation ends with it, or Retry.execute sleeps on its StaleResponseError
LeavesWith(u) ==
    /\ http[u].st = "done"
    /\ \/ /\ caller'.pc = "done"
          /\ caller'.ret.from = u
          /\ http[u].raised # "none"
             => /\ caller'.ret.raised = SurfacedAs(http[u].raised)
                /\ caller'.ret.why = http[u].why
          /\ http[u].raised = "none"
             => caller'.ret.raised \in {"none", "JsonRpcError", "InvalidServerResponse"}
       \/ /\ caller'.pc = "retry"
          /\ http[u].raised = "StaleResponseError"
          /\ log'[Len(log') - 1] = Event("StaleResponseError", caller.tries)

C11_Step ==
    rs = "first_success" /\ caller' # caller
    => /\ caller.pc = "wait"
          => \E u \in Urls :
                /\ http[u].st = "done"
                /\ IF http[u].raised = "none"
                   THEN LeavesWith(u)
                   ELSE caller'.pc = "second" /\ caller'.first = u /\ log' = log
       /\ caller.pc = "second"
          => /\ http[caller.first].raised # "none"
             /\ LeavesWith(Other(caller.first))

C11_Inv ==
    \A u \in Urls :
        Ended /\ rs = "first_success" /\ http[u].rank = 1 /\ http[u].raised # "none"
        => /\ http[Other(u)].st = "done"
           /\ http[Other(u)].raised = "none" => caller.ret.from = Other(u)

C12_FallbackSurfacesBackup ==
    Ended /\ rs = "fallback" /\ http["primary"].raised # "none"
    => /\ http["backup"].st = "done"
       /\ caller.ret.from = "backup"
       /\ http["backup"].raised # "none"
          => /\ caller.ret.raised = SurfacedAs(http["backup"].raised)
             /\ caller.ret.why = http["backup"].why
       /\ http["backup"].raised = "none"
          => caller.ret.raised \in {"none", "JsonRpcError", "InvalidServerResponse"}

\* C12 witness: the backup finished first and failed for want of JSON, the primary
\* failed in transport afterwards, and the operation raised the backup's failure.
C12_Witness ==
    /\ Ended
    /\ rs = "fallback"
    /\ http["backup"].rank = 1
    /\ http["primary"].raised = "RequestException"
    /\ http["backup"].why = "not_json"
    /\ caller.ret.raised = "InvalidServerResponse"
    /\ caller.ret.why = "not_json"

C13_Inv ==
    rs = "fallback"
    => /\ caller.pc = "second" => http["primary"].st = "done" /\ http["primary"].raised # "none"
       /\ Ended => http["primary"].st = "done"
       /\ Ended /\ http["primary"].raised = "none" => caller.ret.from = "primary"

C13_Step ==
    rs = "fallback" /\ caller.pc = "wait" /\ caller' # caller
    => http["primary"].st = "done"

\* C13: in fallback mode the caller thread does not leave primary.result() before the
\* primary's run is finished; when that run returned its object the operation ends
\* with the primary's object, whatever the backup did and whenever; backup.result()
\* is reached only after a failure of the primary.
C13_FallbackWaitsForPrimary == []C13_Inv /\ [][C13_Step]_vars

\* C13 witness: the backup returned its object first, the primary returned its object
\* afterwards, and the operation returned the primary's.
C13_Witness ==
    /\ Ended
    /\ rs = "fallback"
    /\ http["backup"].rank = 1
    /\ http["backup"].raised = "none"
    /\ http["primary"].rank = 2
    /\ caller.ret.from = "primary"
    /\ caller.ret.value = "object"

\* run u's response was rejected as stale and the other run's response was accepted
OnlyStale(u) ==
    /\ http[u].st = "done"
    /\ http[u].stale
    /\ http[Other(u)].st = "done"
    /\ http[Other(u)].raised = "none"
    /\ ~http[Other(u)].stale

\* C14: with ignore_stale_response false under RequestWithBackups, a run whose
\* response is rejected as stale has failed, and when one run's response was rejected
\* as stale and the other's accepted, the operation ends with the accepted response
\* (it is not retried and does not raise StaleResponseError), in first-success and in
\* fallback mode and in every order of completion.
C14_AcceptedResponseWins ==
    rs # "direct" /\ ~caller.ignore_stale_response
    => \A u \in Urls :
          /\ http[u].stale => http[u].raised = "StaleResponseError"
          /\ OnlyStale(u) /\ caller.pc \in {"retry", "done"}
             => /\ Ended
                /\ caller.ret.from = Other(u)
                /\ caller.ret.raised # "StaleResponseError"

\* C14 witness: in first-success mode the primary finished first with a stale
\* response, the backup's response was accepted, and the operation returned the
\* backup's object.
C14_Witness ==
    /\ Ended
    /\ rs = "first_success"
    /\ ~caller.ignore_stale_response
    /\ OnlyStale("primary")
    /\ http["primary"].rank = 1
    /\ caller.ret.from = "backup"
    /\ caller.ret.value = "object"

(* ---- wait_for_transaction2 (SpecWait, SpecWaitFair) ---- *)

\* expiration_time_secs in the unit of State.timestamp_usecs
Threshold == waiter.expiration_time_secs * 1000000

\* the lookup of this iteration ends in this step
ReturnStep == waiter.pc = "lookup" /\ waiter'.pc # "lookup"

\* the lookup has returned no transaction
NoneFound == caller.ret.raised = "none" /\ caller.ret.value = "None"

\* the lookup has returned a transaction
TxnFound == caller.ret.raised = "none" /\ caller.ret.value = "object"

C15_Inv ==
    /\ waiter.outcome = "TransactionExpired"
       => Threshold <= waiter.state.timestamp_usecs /\ ~waiter.txn.found
    /\ waiter.outcome = "WaitForTransactionTimeout" => waiter.now >= waiter.max_wait

C15_Step ==
    /\ ReturnStep /\ NoneFound
       => IF Threshold <= waiter.state.timestamp_usecs
          THEN waiter'.pc = "done" /\ waiter'.outcome = "TransactionExpired"
          ELSE waiter'.pc = "sleep" /\ waiter'.outcome = "none"
    /\ waiter'.outcome = "WaitForTransactionTimeout" /\ waiter.outcome = "none"
       => waiter.pc = "loop" /\ waiter.now >= waiter.max_wait

FoundOutcome(txn) ==
    IF ~txn.hash_ok THEN "TransactionHashMismatchError"
    ELSE IF ~txn.executed THEN "TransactionExecutionFailed"
    ELSE "txn"

C16_Inv ==
    /\ waiter.txn.found
       => waiter.pc = "done" /\ waiter.outcome = FoundOutcome(waiter.txn)
    /\ waiter.outcome \in {"TransactionHashMismatchError", "TransactionExecutionFailed", "txn"}
       => waiter.txn.found

C16_Step ==
    ReturnStep /\ TxnFound
    => /\ waiter'.txn.found
       /\ waiter'.pc = "done"
       /\ waiter'.polls = waiter.polls

\* C16: a poll whose lookup returns a transaction ends the wait in that poll:
\* with TransactionHashMismatchError when the hash is not the expected one, whatever
\* the execution status; otherwise with TransactionExecutionFailed when the status is
\* not the success status; otherwise by returning the transaction.  It never leads to
\* TransactionExpired, a sleep or another poll, whatever the copy of the stored state.
C16_FoundTransactionDecides == []C16_Inv /\ [][C16_Step]_vars

\* C16 witness: the first poll, whose copy of the stored state was already at the
\* expiration, found a transaction with another hash and a failed status, and the
\* wait raised TransactionHashMismatchError.
C16_Witness ==
    /\ waiter.outcome = "TransactionHashMismatchError"
    /\ waiter.txn.found
    /\ ~waiter.txn.executed
    /\ waiter.polls = 1
    /\ waiter.expiration_time_secs = 1
    /\ Threshold <= waiter.state.timestamp_usecs

C17_Inv ==
    /\ waiter.outcome = "TransactionExpired" => Threshold <= waiter.state.timestamp_usecs
    /\ waiter.pc = "lookup" /\ caller.pc # "done"
       => caller.start.timestamp_usecs >= waiter.state.timestamp_usecs
    /\ waiter.pc = "lookup" /\ caller.pc = "done" /\ caller.ret.raised = "none"
       => http["primary"].fresh

C17_Step ==
    /\ waiter.pc \in {"call", "lookup"} => waiter'.state = waiter.state
    /\ waiter.pc = "lookup" /\ RunStep("primary") /\ http'["primary"].raised = "none"
       => last_known_server_state'.timestamp_usecs >= waiter.state.timestamp_usecs
    /\ ReturnStep /\ NoneFound /\ waiter.state.timestamp_usecs < Threshold
       => waiter'.pc = "sleep"

\* C17: the copy of the stored state a poll tests for expiry is taken before the
\* poll's lookup starts and is not replaced while the lookup runs; the response a
\* lookup returns was accepted at a ledger timestamp at or past that copy's; and
\* TransactionExpired is raised only with a copy at or past
\* expiration_time_secs * 1_000_000, so that a poll whose copy is below it goes on to
\* sleep however far other threads have moved the stored state meanwhile.
C17_SnapshotBeforeLookup == []C17_Inv /\ [][C17_Step]_vars

\* C17 witness: a poll took its copy below the expiration, the stored state then
\* moved to the expiration, the lookup found nothing, and the poll went on to sleep.
C17_Witness ==
    /\ waiter.pc = "sleep"
    /\ waiter.state.timestamp_usecs # Unset
    /\ waiter.state.timestamp_usecs < Threshold
    /\ Threshold <= last_known_server_state.timestamp_usecs

\* what a failed lookup raises
LookupFailures ==
    {"NetworkError", "JsonRpcError", "InvalidServerResponse", "StaleResponseError", "TypeError"}

C18_Inv ==
    waiter.pc = "done"
    => /\ waiter.outcome \in
              {"WaitForTransactionTimeout", "TransactionExpired",
               "TransactionHashMismatchError", "TransactionExecutionFailed", "txn"}
              \cup LookupFailures
       /\ waiter.outcome = "WaitForTransactionTimeout"
          => ~waiter.txn.found /\ ~(waiter.now < waiter.max_wait)

C18_Step ==
    /\ waiter'.outcome = "WaitForTransactionTimeout" /\ waiter.outcome = "none"
       => waiter.pc = "loop" /\ ~(waiter.now < waiter.max_wait)
    /\ waiter.pc = "loop" /\ waiter' # waiter /\ waiter.now < waiter.max_wait
       => waiter'.pc \in {"loop", "state"} /\ waiter'.outcome = "none"
    /\ waiter'.now # waiter.now
       => /\ waiter'.pc = waiter.pc \/ (waiter.pc = "sleep" /\ waiter'.pc = "loop")
          /\ waiter'.outcome = waiter.outcome
          /\ caller' = caller
    /\ ReturnStep /\ TxnFound => waiter'.outcome = FoundOutcome(waiter'.txn)

\* C18: wait_for_transaction2 ends; it ends with WaitForTransactionTimeout unless a
\* lookup returned a transaction, failed, or the expiry was proven, and it raises
\* WaitForTransactionTimeout only from the loop test found false at the start of an
\* iteration.  Time that passes during a lookup or a sleep ends neither, and a
\* transaction returned by a lookup decides the wait also after the deadline.
C18_TimeoutAtLoopTest == <>(waiter.pc = "done") /\ []C18_Inv /\ [][C18_Step]_vars

\* C18 witness: two polls found nothing and proved no expiry, and the wait raised
\* WaitForTransactionTimeout.
C18_Witness ==
    /\ waiter.outcome = "WaitForTransactionTimeout"
    /\ waiter.polls = 2
    /\ waiter.state.timestamp_usecs # Unset
    /\ waiter.state.timestamp_usecs < Threshold

(* ---- responses without ledger fields, accepted responses (Spec) ---- *)

\* the JSON object that carries none of diem_chain_id, diem_ledger_version and
\* diem_ledger_timestampusec
Absent == [kind |-> "json"] @@ NoFields

\* the run of url u that finishes in this step received resp
Received(u, resp) ==
    /\ RunStep(u)
    /\ LET r == send_http_request(last_known_server_state, caller.start,
                                  caller.ignore_stale_response, resp)
       IN /\ http'[u] = [r.call EXCEPT !.rank = http'[u].rank]
          /\ last_known_server_state' = r.state

C19_Step ==
    \A u \in Urls :
        Received(u, Absent)
        => /\ http'[u].raised = "none"
           /\ last_known_server_state' = last_known_server_state

\* C19 as the specification states it: a run of _send_http_request whose response
\* carries none of the three ledger fields does not raise and leaves the stored state
\* as it was, whether the stored state is still the -1 sentinel or an observed one.
\* The code does not behave so: update_last_known_state is called with three None,
\* and raises TypeError from curr.version > None while the stored chain id is -1,
\* InvalidServerResponse from curr.chain_id != None once a chain id is stored.
C19_AbsentFieldsTolerated == [][C19_Step]_vars

\* the run whose object execute_without_retry classified was accepted by
\* update_last_known_state
Accepted == FromRun /\ Surfaced.raised = "none" /\ ~Surfaced.stale

C20_Inv ==
    Ended /\ Accepted
    => /\ Classified
       /\ caller.ret.error => caller.ret.raised = "JsonRpcError" /\ caller.ret.value = "none"
       /\ ~caller.ret.error /\ caller.ret.result /\ ~caller.result_parser
          => caller.ret.raised = "none" /\ caller.ret.value = "None"
       /\ ~caller.ret.error /\ ~caller.ret.result
          => caller.ret.raised = "InvalidServerResponse" /\ caller.ret.value = "none"
       /\ last_known_server_state.chain_id # Unset
       /\ last_known_server_state.version # Unset
       /\ last_known_server_state.timestamp_usecs # Unset

C20_Step ==
    /\ \A u \in Urls :
          RunStep(u) /\ http'[u].raised = "none" /\ ~http'[u].stale
          => \E resp \in JsonResponses :
                /\ Received(u, resp)
                /\ last_known_server_state' =
                      State(resp.chain_id, resp.version, resp.timestamp_usecs)
    /\ ~Ended /\ Ended'
       => /\ last_known_server_state' = last_known_server_state
          /\ http' = http

\* C20: when update_last_known_state accepts a response, the stored state becomes the
\* response's ledger state in the step in which the run of _send_http_request finishes,
\* before execute_without_retry looks at the object; execute_without_retry then raises
\* JsonRpcError if the object carries "error" (also when it carries "result" too), else
\* for "result" returns None without a result_parser and what result_parser makes of
\* the result with one (its value, or InvalidServerResponse when it raises ParseError),
\* else raises InvalidServerResponse; the classifying step changes neither the stored
\* state nor the runs.
C20_AcceptedEnvelope == []C20_Inv /\ [][C20_Step]_vars

\* C20 witness: an accepted response that carried both "error" and "result" ended
\* execute_without_retry with JsonRpcError, the stored state already at the response's.
C20_Witness ==
    /\ Ended
    /\ caller.op = "execute_without_retry"
    /\ rs = "direct"
    /\ Accepted
    /\ caller.ret.error
    /\ caller.ret.result
    /\ caller.ret.raised = "JsonRpcError"
    /\ last_known_server_state.version = MaxVersion

(* ---- transport failures (Spec) ---- *)

C21_Inv ==
    /\ \A u \in Urls : http[u].raised = "RequestException" => ~http[u].stale /\ ~http[u].fresh
    /\ Ended /\ FromRun
       => /\ Surfaced.raised = "RequestException"
             => /\ caller.ret.raised = "NetworkError"
                /\ caller.ret.value = "none"
                /\ ~caller.ret.error /\ ~caller.ret.result
          /\ caller.ret.raised = "NetworkError" => Surfaced.raised = "RequestException"
          /\ caller.ret.raised # "RequestException"

C21_Step ==
    \A u \in Urls :
        RunStep(u) /\ http'[u].raised = "RequestException"
        => last_known_server_state' = last_known_server_state

\* C21: session.post and raise_for_status fail with a requests.RequestException
\* (connection failure, timeout, status that is not 2xx); the run of
\* _send_http_request that meets one never reaches update_last_known_state, so the
\* stored state stays as it was, and under every strategy the operation that is
\* handed that run's failure ends with NetworkError, without a value and never with
\* the RequestException itself; NetworkError has no other origin.
C21_TransportFailureWrapped == []C21_Inv /\ [][C21_Step]_vars

\* C21 witness: under the fallback strategy, on a client that has observed a state,
\* both requests met a transport failure and the call ended with the backup's
\* NetworkError.
C21_Witness ==
    /\ Ended
    /\ caller.op = "execute_without_retry"
    /\ rs = "fallback"
    /\ caller.ret.from = "backup"
    /\ http["primary"].raised = "RequestException"
    /\ http["backup"].raised = "RequestException"
    /\ caller.ret.raised = "NetworkError"
    /\ last_known_server_state.version = MaxVersion

(* ---- readers of the tracker (SpecTracker) ---- *)

\* thread t returns from get_last_known_state in this step
GetStep(t) == threads[t].pc = "get" /\ threads'[t].pc = "got"

\* a triple with every field observed
Observed(s) == s.chain_id # Unset /\ s.version # Unset /\ s.timestamp_usecs # Unset

C22_Inv ==
    /\ last_known_server_state = NoArgs \/ Observed(last_known_server_state)
    /\ \A t \in Threads :
          threads[t].pc = "got"
          => threads[t].returned = NoArgs \/ Observed(threads[t].returned)

C22_Step ==
    /\ \A t \in Threads :
          /\ UpdateStep(t) /\ threads'[t].raised = "none"
             => last_known_server_state' = threads[t].args
          /\ GetStep(t) => threads'[t].returned = last_known_server_state
          /\ threads[t].pc = "got" /\ threads'[t].pc = "got"
             => threads'[t].returned = threads[t].returned
    /\ last_known_server_state' # last_known_server_state
       => \E t \in Threads : UpdateStep(t) /\ threads'[t].raised = "none"

\* C22: over every interleaving of get_last_known_state and update_last_known_state
\* calls, the stored state changes only in an update that raises nothing, and then
\* becomes exactly the three arguments of that update; get_last_known_state returns
\* the stored state of the moment it holds the lock, so a returned value is the
\* (-1, -1, -1) of construction, returned as long as no update has been accepted, or
\* the triple of one accepted update, never fields of two; and the value a reader
\* holds stays what it was when the stored state is replaced later.
C22_SnapshotOfOneUpdate == []C22_Inv /\ [][C22_Step]_vars

\* C22 witness: a reader holds the triple of an accepted update while the stored state
\* has moved on to a later one.
C22_Witness ==
    \E t \in Threads :
        /\ threads[t].pc = "got"
        /\ Observed(threads[t].returned)
        /\ threads[t].returned.version < last_known_server_state.version
        /\ threads[t].returned.timestamp_usecs < last_known_server_state.timestamp_usecs

(* ---- failures of the lookup (SpecWait) ---- *)

C23_Inv ==
    /\ waiter.outcome \in LookupFailures
       => waiter.pc = "done" /\ ~waiter.txn.found /\ waiter.polls >= 1
    /\ waiter.pc = "lookup"
       => /\ caller.op = "execute"
          /\ caller.tries <= retry.max_retries
          /\ Count("send_request") <= caller.tries
          /\ Ended => Count("send_request") = caller.tries
          /\ Ended /\ caller.ret.raised = "StaleResponseError"
             => caller.tries = retry.max_retries

C23_Step ==
    /\ ReturnStep /\ caller.ret.raised # "none"
       => /\ caller.ret.raised \in LookupFailures
          /\ waiter'.pc = "done"
          /\ waiter'.outcome = caller.ret.raised
          /\ waiter'.polls = waiter.polls
          /\ waiter'.now = waiter.now
    /\ waiter.pc = "done" => waiter' = waiter

\* C23: the lookup of wait_for_transaction2 goes through Client.execute, so one poll
\* sends up to max_retries requests and its StaleResponseError comes out only when
\* the last of them was stale; an exception of the lookup (NetworkError, JsonRpcError,
\* InvalidServerResponse, StaleResponseError, or the TypeError of a response without
\* ledger fields) leaves wait_for_transaction2 at once as it is, without a sleep or
\* another poll, and the wait that has ended stays ended.
C23_LookupFailureEndsWait == []C23_Inv /\ [][C23_Step]_vars

\* C23 witness: the first poll found nothing and slept, and the second poll's lookup
\* ended the wait with StaleResponseError.
C23_Witness ==
    /\ waiter.pc = "done"
    /\ waiter.outcome = "StaleResponseError"
    /\ waiter.polls = 2
    /\ waiter.now < waiter.max_wait

(* ---- RequestWithBackups on a client with one caller (SpecAlone) ---- *)

\* both runs of the send_request have finished, each with a response that went through
\* update_last_known_state at or past the state stored before the request
BothFresh == \A u \in Urls : http[u].st = "done" /\ http[u].fresh

C24_Inv ==
    /\ caller.pc \in {"retry", "send"}
       => /\ caller.start.version = last_known_server_state.version
          /\ caller.start.timestamp_usecs = last_known_server_state.timestamp_usecs
    /\ rs # "direct" /\ BothFresh
       => /\ \E u \in Urls : http[u].raised = "none" /\ ~http[u].stale
          /\ caller.pc # "retry"
          /\ Ended => /\ caller.ret.raised # "StaleResponseError"
                      /\ Surfaced.raised = "none"

C24_Step ==
    \A u \in Urls :
        RunStep(u) /\ http[Other(u)].st # "done" /\ http'[u].fresh
        => /\ http'[u].raised = "none"
           /\ ~http'[u].stale
           /\ last_known_server_state'.version >= last_known_server_state.version
           /\ last_known_server_state'.timestamp_usecs
                 >= last_known_server_state.timestamp_usecs

====
